---- MODULE Spec2Model ----
(***************************************************************************)
(* Contract risk classifier (contract_risk_classifier.py).                 *)
(*                                                                         *)
(* The model follows the three functions of the script:                    *)
(*   analyze_text      - one agent call, then the reply is cleaned to a    *)
(*                       label "Yes"/"No" (lines 66-106)                   *)
(*   process_csv_file  - the column/row scan that calls analyze_text and   *)
(*                       writes the label back (lines 108-141)             *)
(*   main              - the interactive driver (lines 143-191)            *)
(*                                                                         *)
(* Texts that the code inspects character by character (the agent's reply, *)
(* the tokens of the column selection) are sequences of one-character      *)
(* strings.  Cell values, which the code only compares with "" and passes  *)
(* on, are strings; the missing value NaN is the string "NaN", which is    *)
(* also what pandas reads as missing.                                      *)
(***************************************************************************)
EXTENDS Integers, Sequences, FiniteSets, TLC

VARIABLES
    entry,          \* the function called from outside: "main", "process_csv_file", "analyze_text"
    pc,             \* position of the single thread of control
    csv_file,       \* the input file: [header, rows], rows of raw fields
    main_df,        \* main's df (line 161); <<>> before it is loaded
    col_input,      \* main's col_input, split at "," (line 168); <<>> before the prompt
    text_columns,   \* the target column names (line 169 / parameter of process_csv_file)
    df,             \* process_csv_file's df (line 112); <<>> before it is loaded
    values,         \* the rows df.iterrows() iterates over (taken when the row loop starts)
    ci,             \* position of col in text_columns (for col in text_columns)
    idx,            \* position of the current row (idx + 1 of line 127)
    text,           \* analyze_text's parameter text
    column_name,    \* analyze_text's parameter column_name
    result,         \* analyze_text's result (the reply of crew.kickoff())
    label,          \* analyze_text's return value
    error,          \* the exception travelling up, "" when there is none
    calls,          \* history: the invocations of crew.kickoff(), in order
    console,        \* history: what was printed
    prompts,        \* history: the input() prompts shown
    out_file,       \* the files written by to_csv, in order
    writes,         \* history: the cells written by df.at, in order
    save_path       \* main's save_path (line 185); NotAsked before the prompt

vars == <<entry, pc, csv_file, main_df, col_input, text_columns, df, values, ci, idx,
          text, column_name, result, label, error, calls, console, prompts, out_file,
          writes, save_path>>

-----------------------------------------------------------------------------
(* Bounds of the model *)

\* longest agent reply enumerated when analyze_text is called on its own
MaxLen == 5
\* most data rows of the input file
MaxRows == 2
\* most entries of a column selection / of a target list
MaxSel == 2

Range(s) == {s[i] : i \in 1..Len(s)}

SeqsUpTo(S, n) == UNION {[1..k -> S] : k \in 0..n}

-----------------------------------------------------------------------------
(* Text: str.lower, str.strip, the operator in *)

Alphabet == {"y", "Y", "e", "E", "s", "N", "o", " ", "x"}

\* str.lower() on the letters that occur
LowerChar(c) ==
    CASE c = "Y" -> "y"
      [] c = "E" -> "e"
      [] c = "S" -> "s"
      [] c = "N" -> "n"
      [] c = "O" -> "o"
      [] OTHER -> c

Lower(s) == [i \in 1..Len(s) |-> LowerChar(s[i])]

IsSpace(c) == c = " "

\* str.strip(): leading and trailing whitespace removed
Strip(s) ==
    LET keep == {i \in 1..Len(s) : ~IsSpace(s[i])}
        first == CHOOSE i \in keep : \A j \in keep : i <= j
        last == CHOOSE i \in keep : \A j \in keep : j <= i
    IN  IF keep = {} THEN <<>> ELSE SubSeq(s, first, last)

\* sub in s
In(sub, s) == \E i \in 1..(Len(s) - Len(sub) + 1) : SubSeq(s, i, i + Len(sub) - 1) = sub

yes == <<"y", "e", "s">>
no == <<"n", "o">>

-----------------------------------------------------------------------------
(* The table: pd.read_csv, DataFrame.to_csv, pd.isna *)

\* the missing value
NaN == "NaN"

\* the fields pd.read_csv reads as missing (its default na_values)
NaValues == {"", "#N/A", "#N/A N/A", "#NA", "-1.#IND", "-1.#QNAN", "-NaN", "-nan",
             "1.#IND", "1.#QNAN", "<NA>", "N/A", "NA", "NULL", "NaN", "None",
             "n/a", "nan", "null"}

isna(v) == v = NaN

\* the header of the input file
Header == <<"A", "B">>

\* the raw fields of the input file: an empty field, a field that reads as
\* missing, a contract text
RawFields == {"", "NA", "pay"}

\* the input files: the header and at most MaxRows rows of raw fields
Files ==
    {[header |-> Header, rows |-> r] : r \in SeqsUpTo([1..Len(Header) -> RawFields], MaxRows)}

NoFile == [header |-> <<>>, rows |-> <<>>]
\* save_path before the prompt of line 185
NotAsked == "<not asked>"
NoDf == [columns |-> <<>>, rows |-> <<>>]

\* pd.read_csv(csv_path): the first row names the columns, each further row
\* maps the column names to its fields, the fields in na_values read as NaN
read_csv(f) ==
    [columns |-> f.header,
     rows |-> [i \in 1..Len(f.rows) |->
                 [c \in Range(f.header) |->
                     LET k == CHOOSE k \in 1..Len(f.header) : f.header[k] = c
                         field == f.rows[i][k]
                     IN  IF field \in NaValues THEN NaN ELSE field]]]

\* df.to_csv(path, index=False): the header, then the rows in order, NaN
\* written as the empty field
to_csv(d) ==
    [header |-> d.columns,
     rows |-> [i \in 1..Len(d.rows) |->
                 [k \in 1..Len(d.columns) |->
                     LET v == d.rows[i][d.columns[k]]
                     IN  IF isna(v) THEN "" ELSE v]]]

-----------------------------------------------------------------------------
(* analyze_text (lines 66-106) *)

\* what the agent may answer while a table is processed; the other replies
\* are enumerated where analyze_text is called on its own
Replies == { <<"Y", "e", "s">>, <<"N", "o">> }

\* every text of at most MaxLen characters
AllReplies == SeqsUpTo(Alphabet, MaxLen)

\* the replies crew.kickoff() may give in this run
ReplySet == IF entry = "analyze_text" THEN AllReplies ELSE Replies

\* the exceptions crew.kickoff() may raise
Errors == {"APIConnectionError"}

\* "no" is tested before "yes"
CleanResult_NoFirst(res) ==
    LET result_str == Strip(res)
    IN  IF In(no, Lower(result_str))
        THEN [label |-> "No", warning |-> <<>>]
        ELSE IF In(yes, Lower(result_str))
        THEN [label |-> "Yes", warning |-> <<>>]
        ELSE [label |-> "No", warning |-> <<[kind |-> "unclear", reply |-> result_str]>>]

\* .lower() forgotten in the test for "no"
CleanResult_NoLower(res) ==
    LET result_str == Strip(res)
    IN  IF In(yes, Lower(result_str))
        THEN [label |-> "Yes", warning |-> <<>>]
        ELSE IF In(no, result_str)
        THEN [label |-> "No", warning |-> <<>>]
        ELSE [label |-> "No", warning |-> <<[kind |-> "unclear", reply |-> result_str]>>]

\* the warning prints the lowered text instead of result_str
CleanResult_WarnLowered(res) ==
    LET result_str == Strip(res)
    IN  IF In(yes, Lower(result_str))
        THEN [label |-> "Yes", warning |-> <<>>]
        ELSE IF In(no, Lower(result_str))
        THEN [label |-> "No", warning |-> <<>>]
        ELSE [label |-> "No",
              warning |-> <<[kind |-> "unclear", reply |-> Lower(result_str)]>>]

\* lines 97-106: the label returned for a reply and the warning printed, if any
CleanResult(res) ==
    LET result_str == Strip(res)
    IN  IF In(yes, Lower(result_str))
        THEN [label |-> "Yes", warning |-> <<>>]
        ELSE IF In(no, Lower(result_str))
        THEN [label |-> "No", warning |-> <<>>]
        ELSE [label |-> "No", warning |-> <<[kind |-> "unclear", reply |-> result_str]>>]

\* the call is tried again
Handler_Retry == "a_kickoff"

\* where an exception raised inside analyze_text lands: main's except clause,
\* or the caller of the function that was called from outside
Handler == IF entry = "main" THEN "m_except" ELSE "raised"

\* lines 69-95: the task and the crew are built and crew.kickoff() runs: it
\* returns a reply or raises
Kickoff ==
    /\ pc = "a_kickoff"
    /\ \/ \E r \in ReplySet :
            /\ result' = r
            /\ pc' = "a_clean"
            /\ error' = error
       \/ \E e \in Errors :
            /\ error' = e
            /\ pc' = Handler
            /\ result' = result
    /\ calls' = Append(calls, [row |-> idx, col |-> column_name, text |-> text])
    /\ UNCHANGED <<entry, csv_file, main_df, col_input, text_columns, df, values, ci, idx,
                   text, column_name, label, console, prompts, out_file,
                   writes, save_path>>

\* lines 97-106: the reply is cleaned and the label returned
Clean ==
    /\ pc = "a_clean"
    /\ label' = CleanResult(result).label
    /\ console' = console \o CleanResult(result).warning
    /\ pc' = IF entry = "analyze_text" THEN "done" ELSE "p_write"
    /\ UNCHANGED <<entry, csv_file, main_df, col_input, text_columns, df, values, ci, idx,
                   text, column_name, result, error, calls, prompts, out_file,
                   writes, save_path>>

-----------------------------------------------------------------------------
(* process_csv_file (lines 108-141) *)

\* the names a target list may hold: the columns of the file and a name that
\* is no column
ColumnNames == Range(Header) \cup {"Z"}

TargetLists == SeqsUpTo(ColumnNames, MaxSel)

\* the column of the current pass
col == text_columns[ci]

\* the test is dropped: no cell is skipped
SkipCell_Never(v) == FALSE

\* line 131: pd.isna(text_value) or text_value == ""
SkipCell(v) == isna(v) \/ v = ""

\* break instead of continue
AfterMissingColumn_Break(i) == Len(text_columns) + 1

\* line 121: continue with the next name of text_columns
AfterMissingColumn(i) == i + 1

\* the label is written to the whole column
SetAt_WholeColumn(d, r, c, v) ==
    [d EXCEPT !.rows = [i \in 1..Len(d.rows) |-> [d.rows[i] EXCEPT ![c] = v]]]

\* line 138: df.at[idx, col] = result
SetAt(d, r, c, v) == [d EXCEPT !.rows[r][c] = v]

\* lines 112-115: the file is read, the agent created
ProcLoad ==
    /\ pc = "p_load"
    /\ df' = read_csv(csv_file)
    /\ ci' = 1
    /\ pc' = "p_col"
    /\ UNCHANGED <<entry, csv_file, main_df, col_input, text_columns, values, idx,
                   text, column_name, result, label, error, calls, console, prompts,
                   out_file,
                   writes, save_path>>

\* lines 118-126: the next name of text_columns; a name that is no column is
\* reported and passed over, for a column the row loop starts
ProcCol ==
    /\ pc = "p_col"
    /\ ci <= Len(text_columns)
    /\ IF col \notin Range(df.columns)
       THEN /\ console' = Append(console, [kind |-> "column_not_found", name |-> col])
            /\ ci' = AfterMissingColumn(ci)
            /\ pc' = "p_col"
            /\ UNCHANGED <<values, idx>>
       ELSE /\ console' = Append(console, [kind |-> "processing_column", name |-> col])
            /\ values' = df.rows
            /\ idx' = 1
            /\ pc' = "p_row"
            /\ ci' = ci
    /\ UNCHANGED <<entry, csv_file, main_df, col_input, text_columns, df,
                   text, column_name, result, label, error, calls, prompts, out_file,
                   writes, save_path>>

\* lines 126-135: the next row of the column: a missing or empty cell is
\* passed over, any other is handed to analyze_text; after the last row the
\* column loop goes on
ProcRow ==
    /\ pc = "p_row"
    /\ IF idx > Len(values)
       THEN /\ ci' = ci + 1
            /\ pc' = "p_col"
            /\ UNCHANGED <<idx, text, column_name, console>>
       ELSE /\ console' = Append(console, [kind |-> "analyzing_row", row |-> idx,
                                           of |-> Len(df.rows), name |-> col])
            /\ IF SkipCell(values[idx][col])
               THEN /\ idx' = idx + 1
                    /\ pc' = "p_row"
                    /\ UNCHANGED <<text, column_name>>
               ELSE /\ text' = values[idx][col]
                    /\ column_name' = col
                    /\ pc' = "a_kickoff"
                    /\ idx' = idx
            /\ ci' = ci
    /\ UNCHANGED <<entry, csv_file, main_df, col_input, text_columns, df, values,
                   result, label, error, calls, prompts, out_file,
                   writes, save_path>>

\* line 138: the label is written to the cell, the row loop goes on
ProcWrite ==
    /\ pc = "p_write"
    /\ df' = SetAt(df, idx, col, label)
    /\ writes' = Append(writes, [row |-> idx, col |-> col, label |-> label])
    /\ idx' = idx + 1
    /\ pc' = "p_row"
    /\ UNCHANGED <<entry, csv_file, main_df, col_input, text_columns, values, ci,
                   text, column_name, result, label, error, calls, console, prompts,
                   out_file, save_path>>

\* line 141: the table is returned, to main or to the caller
ProcReturn ==
    /\ pc = "p_col"
    /\ ci > Len(text_columns)
    /\ pc' = IF entry = "main" THEN "m_save" ELSE "done"
    /\ UNCHANGED <<entry, csv_file, main_df, col_input, text_columns, df, values, ci, idx,
                   text, column_name, result, label, error, calls, console, prompts,
                   out_file,
                   writes, save_path>>

InitProc ==
    /\ entry = "process_csv_file"
    /\ pc = "p_load"
    /\ csv_file \in Files
    /\ main_df = NoDf
    /\ col_input = <<>>
    /\ text_columns \in TargetLists
    /\ df = NoDf
    /\ values = <<>>
    /\ ci = 0
    /\ idx = 0
    /\ text = ""
    /\ column_name = ""
    /\ result = <<>>
    /\ label = ""
    /\ error = ""
    /\ calls = <<>>
    /\ console = <<>>
    /\ prompts = <<>>
    /\ out_file = <<>>
    /\ writes = <<>>
    /\ save_path = NotAsked

NextProc == ProcLoad \/ ProcCol \/ ProcRow \/ Kickoff \/ Clean \/ ProcWrite \/ ProcReturn

SpecProc == InitProc /\ [][NextProc]_vars

-----------------------------------------------------------------------------
(* main (lines 143-191) *)

Digits == {"0", "1", "2", "3"}

DigitValue(c) == CASE c = "0" -> 0 [] c = "1" -> 1 [] c = "2" -> 2 [] c = "3" -> 3

\* int(s) succeeds: s is a non-empty run of digits
IsInt(s) == Len(s) > 0 /\ \A i \in 1..Len(s) : s[i] \in Digits

\* int(s)
RECURSIVE int(_)
int(s) == IF Len(s) = 0 THEN 0
          ELSE 10 * int(SubSeq(s, 1, Len(s) - 1)) + DigitValue(s[Len(s)])

\* the entries the operator may type between the commas: an index below the
\* range, the two columns (one with a blank before it), an index above the
\* range, and nothing
Tokens == { <<"0">>, <<"1">>, <<" ", "2">>, <<"3">>, <<>> }

\* col_input.split(","): at least one entry, at most MaxSel
Selections == SeqsUpTo(Tokens, MaxSel) \ {<<>>}

\* the paths the operator may type at the last prompt
SavePaths == {"", "out.csv"}

\* columns[i] as Python indexes: from 0, a negative i counted from the end
PyIndex(columns, i) == IF i < 0 THEN columns[Len(columns) + i + 1] ELSE columns[i + 1]

RECURSIVE ValidColumns_NoLowerBound(_, _)
\* the test is only idx < len(df.columns)
ValidColumns_NoLowerBound(columns, col_indices) ==
    IF col_indices = <<>> THEN <<>>
    ELSE LET i == Head(col_indices)
             rest == ValidColumns_NoLowerBound(columns, Tail(col_indices))
         IN  IF i < Len(columns) /\ -i <= Len(columns)
             THEN <<PyIndex(columns, i)>> \o rest
             ELSE rest

RECURSIVE ValidColumns(_, _)
\* line 169: [df.columns[idx] for idx in col_indices if 0 <= idx < len(df.columns)]
ValidColumns(columns, col_indices) ==
    IF col_indices = <<>> THEN <<>>
    ELSE LET i == Head(col_indices)
             rest == ValidColumns(columns, Tail(col_indices))
         IN  IF 0 <= i /\ i < Len(columns)
             THEN <<PyIndex(columns, i)>> \o rest
             ELSE rest

\* the file is written whatever was typed
SaveWanted_Always(path) == TRUE

\* line 186: if save_path
SaveWanted(path) == path # ""

\* lines 147-157: the banner, the prompt for the input path; a path that does
\* not exist is reported and main returns
MainStart ==
    /\ pc = "m_start"
    /\ prompts' = Append(prompts, "csv_path")
    /\ \E exists \in BOOLEAN :
          IF exists
          THEN /\ console' = Append(console, [kind |-> "banner"])
               /\ pc' = "m_load"
          ELSE /\ console' = console \o <<[kind |-> "banner"], [kind |-> "file_not_found"]>>
               /\ pc' = "done"
    /\ UNCHANGED <<entry, csv_file, main_df, col_input, text_columns, df, values, ci, idx,
                   text, column_name, result, label, error, calls, out_file,
                   writes, save_path>>

\* lines 161-164: the file is read and its columns listed
MainLoad ==
    /\ pc = "m_load"
    /\ main_df' = read_csv(csv_file)
    /\ console' = Append(console, [kind |-> "available_columns", names |-> csv_file.header])
    /\ pc' = "m_select"
    /\ UNCHANGED <<entry, csv_file, col_input, text_columns, df, values, ci, idx,
                   text, column_name, result, label, error, calls, prompts, out_file,
                   writes, save_path>>

\* lines 167-178: the prompt for the columns; an entry that is no number
\* raises ValueError, a selection without a valid index is reported and main
\* returns, any other goes to process_csv_file
MainSelect ==
    /\ pc = "m_select"
    /\ prompts' = Append(prompts, "col_input")
    /\ \E inp \in Selections :
          /\ col_input' = inp
          /\ IF \E k \in 1..Len(inp) : ~IsInt(Strip(inp[k]))
             THEN /\ error' = "ValueError"
                  /\ pc' = "m_except"
                  /\ UNCHANGED <<text_columns, console>>
             ELSE LET col_indices == [k \in 1..Len(inp) |-> int(Strip(inp[k])) - 1]
                      chosen == ValidColumns(main_df.columns, col_indices)
                  IN  /\ text_columns' = chosen
                      /\ error' = error
                      /\ IF chosen = <<>>
                         THEN /\ console' = Append(console, [kind |-> "no_valid_columns"])
                              /\ pc' = "done"
                         ELSE /\ console' = Append(console, [kind |-> "analyzing_columns",
                                                             names |-> chosen])
                              /\ pc' = "p_load"
    /\ UNCHANGED <<entry, csv_file, main_df, df, values, ci, idx,
                   text, column_name, result, label, calls, out_file,
                   writes, save_path>>

\* lines 181-188: the table is printed, the prompt for the output path; the
\* table is written if a path was typed
MainSave ==
    /\ pc = "m_save"
    /\ prompts' = Append(prompts, "save_path")
    /\ \E path \in SavePaths :
          /\ save_path' = path
          /\ IF SaveWanted(path)
             THEN /\ out_file' = Append(out_file, [path |-> path, content |-> to_csv(df)])
                  /\ console' = console \o <<[kind |-> "complete"], [kind |-> "table"],
                                             [kind |-> "saved", name |-> path]>>
             ELSE /\ out_file' = out_file
                  /\ console' = console \o <<[kind |-> "complete"], [kind |-> "table"]>>
    /\ pc' = "done"
    /\ UNCHANGED <<entry, csv_file, main_df, col_input, text_columns, df, values, ci, idx,
                   text, column_name, result, label, error, calls, writes>>

\* lines 190-191: any exception of the try body is reported
MainExcept ==
    /\ pc = "m_except"
    /\ console' = Append(console, [kind |-> "error_occurred", name |-> error])
    /\ pc' = "done"
    /\ UNCHANGED <<entry, csv_file, main_df, col_input, text_columns, df, values, ci, idx,
                   text, column_name, result, label, error, calls, prompts, out_file,
                   writes, save_path>>

Init ==
    /\ entry = "main"
    /\ pc = "m_start"
    /\ csv_file \in Files
    /\ main_df = NoDf
    /\ col_input = <<>>
    /\ text_columns = <<>>
    /\ df = NoDf
    /\ values = <<>>
    /\ ci = 0
    /\ idx = 0
    /\ text = ""
    /\ column_name = ""
    /\ result = <<>>
    /\ label = ""
    /\ error = ""
    /\ calls = <<>>
    /\ console = <<>>
    /\ prompts = <<>>
    /\ out_file = <<>>
    /\ writes = <<>>
    /\ save_path = NotAsked

Next ==
    \/ MainStart
    \/ MainLoad
    \/ MainSelect
    \/ ProcLoad
    \/ ProcCol
    \/ ProcRow
    \/ Kickoff
    \/ Clean
    \/ ProcWrite
    \/ ProcReturn
    \/ MainSave
    \/ MainExcept

Spec == Init /\ [][Next]_vars

-----------------------------------------------------------------------------
(* analyze_text called on its own *)

InitNorm ==
    /\ entry = "analyze_text"
    /\ pc = "a_kickoff"
    /\ csv_file = NoFile
    /\ main_df = NoDf
    /\ col_input = <<>>
    /\ text_columns = <<>>
    /\ df = NoDf
    /\ values = <<>>
    /\ ci = 0
    /\ idx = 0
    /\ text = "pay"
    /\ column_name = "A"
    /\ result = <<>>
    /\ label = ""
    /\ error = ""
    /\ calls = <<>>
    /\ console = <<>>
    /\ prompts = <<>>
    /\ out_file = <<>>
    /\ writes = <<>>
    /\ save_path = NotAsked

NextNorm == Kickoff \/ Clean

SpecNorm == InitNorm /\ [][NextNorm]_vars

-----------------------------------------------------------------------------
(* Properties of analyze_text's cleaning of the reply (SpecNorm) *)

\* analyze_text has just returned its label
Returned == pc = "p_write" \/ (entry = "analyze_text" /\ pc = "done" /\ error = "")

HasYes(s) == In(yes, Lower(s))
HasNo(s) == In(no, Lower(s))

\* C1: a reply that holds "yes", in any letter case and anywhere, is labelled
\* Yes, also when it holds "no" as well, before or after the "yes"
C1_YesWins == (Returned /\ HasYes(result)) => label = "Yes"

\* a reply with "no" in front of "yes", both with capitals, was labelled Yes
C1_Witness ==
    /\ Returned
    /\ label = "Yes"
    /\ \E i, j \in 1..Len(result) :
          /\ i < j
          /\ j + 2 <= Len(result)
          /\ SubSeq(result, i, i + 1) = <<"N", "o">>
          /\ SubSeq(result, j, j + 2) = <<"Y", "E", "s">>

\* C2: a reply that holds "no" and not "yes" (in any letter case) is labelled
\* No, and the call prints no warning
C2_NoOnly ==
    [][(pc = "a_clean" /\ HasNo(result) /\ ~HasYes(result))
          => (label' = "No" /\ console' = console)]_vars

\* a reply with a capital "No" and without "yes" was labelled No, nothing printed
C2_Witness ==
    /\ Returned
    /\ In(<<"N", "o">>, result)
    /\ ~HasYes(result)
    /\ label = "No"
    /\ console = <<>>

\* C3: a reply that holds neither "yes" nor "no", the empty reply included,
\* is labelled No, and the call prints exactly one warning, which quotes the
\* reply (as stripped of the blanks around it)
C3_Unclear ==
    [][(pc = "a_clean" /\ ~HasNo(result) /\ ~HasYes(result))
          => /\ label' = "No"
             /\ Len(console') = Len(console) + 1
             /\ SubSeq(console', 1, Len(console)) = console
             /\ console'[Len(console')].kind = "unclear"
             /\ console'[Len(console')].reply = Strip(result)]_vars

\* a reply of capitals and blanks that holds neither word was labelled No
\* with one warning printed
C3_Witness ==
    /\ Returned
    /\ entry = "analyze_text"
    /\ result = <<" ", "Y", "E", " ">>
    /\ label = "No"
    /\ Len(console) = 1
    /\ console[1].kind = "unclear"

\* the empty reply was labelled No with one warning printed
C3_EmptyReply ==
    /\ Returned
    /\ entry = "analyze_text"
    /\ result = <<>>
    /\ label = "No"
    /\ Len(console) = 1

-----------------------------------------------------------------------------
(* Properties of process_csv_file (SpecProc) *)

\* process_csv_file has returned the table
ProcReturned == (entry = "process_csv_file" /\ pc = "done") \/ pc = "m_save"

\* the table as it was loaded
Loaded == read_csv(csv_file)

Labels == {"Yes", "No"}

\* the target names that are columns of the table
Processed == Range(text_columns) \cap Range(Loaded.columns)

\* C4: when process_csv_file returns, a cell of a processed column that was
\* missing or empty on load holds the value it was loaded with, and every
\* other cell of a processed column holds Yes or No
C4_CellsEndState ==
    ProcReturned =>
        \A c \in Processed : \A i \in 1..Len(Loaded.rows) :
            LET was == Loaded.rows[i][c]
            IN  IF isna(was) \/ was = ""
                THEN df.rows[i][c] = was
                ELSE df.rows[i][c] \in Labels

\* a processed column returned with a cell that was read as missing from the
\* field NA, next to a cell that was labelled
C4_Witness ==
    /\ ProcReturned
    /\ \E c \in Processed : \E i, j \in 1..Len(Loaded.rows) :
          /\ csv_file.rows[i][1] = "NA"
          /\ c = csv_file.header[1]
          /\ isna(df.rows[i][c])
          /\ Loaded.rows[j][c] = "pay"
          /\ df.rows[j][c] = "No"

\* the target names, in order, that are no column of the table
RECURSIVE Absent(_)
Absent(names) ==
    IF names = <<>> THEN <<>>
    ELSE IF Head(names) \in Range(Loaded.columns)
         THEN Absent(Tail(names))
         ELSE <<Head(names)>> \o Absent(Tail(names))

\* the names of the warnings printed for a name that is no column, in order
RECURSIVE NotFound(_)
NotFound(out) ==
    IF out = <<>> THEN <<>>
    ELSE IF Head(out).kind = "column_not_found"
         THEN <<Head(out).name>> \o NotFound(Tail(out))
         ELSE NotFound(Tail(out))

\* every cell of column c that is not skipped was handed to the agent and
\* then written
FullyProcessed(c) ==
    \A i \in 1..Len(Loaded.rows) :
        ~(isna(Loaded.rows[i][c]) \/ Loaded.rows[i][c] = "") =>
            /\ \E k \in 1..Len(calls) : calls[k].row = i /\ calls[k].col = c
            /\ \E k \in 1..Len(writes) : writes[k].row = i /\ writes[k].col = c
            /\ df.rows[i][c] \in Labels

\* C5: a target name that is no column of the table yields one warning, no
\* agent call and no write under that name, and does not end the loop: the
\* columns named after it are processed in full
C5_AbsentColumn ==
    /\ \A k \in 1..Len(calls) : calls[k].col \in Range(df.columns)
    /\ \A k \in 1..Len(writes) : writes[k].col \in Range(df.columns)
    /\ ProcReturned =>
          /\ NotFound(console) = Absent(text_columns)
          /\ \A a, b \in 1..Len(text_columns) :
                (a < b /\ text_columns[a] \notin Range(Loaded.columns)
                       /\ text_columns[b] \in Range(Loaded.columns))
                    => FullyProcessed(text_columns[b])

\* process_csv_file returned after a name that is no column, with a column
\* named after it labelled
C5_Witness ==
    /\ ProcReturned
    /\ Len(text_columns) >= 2
    /\ text_columns[1] = "Z"
    /\ text_columns[2] \in Range(Loaded.columns)
    /\ \E k \in 1..Len(writes) : writes[k].col = text_columns[2]
    /\ NotFound(console) = <<"Z">>

\* C10: during the scan the table keeps its columns and its rows, a cell of a
\* column that is no target keeps the value it was loaded with, and a step
\* changes no cell but the one at the current row and column
C10_Frame ==
    [][df # NoDf =>
          /\ df'.columns = df.columns
          /\ Len(df'.rows) = Len(df.rows)
          /\ \A i \in 1..Len(df.rows) : \A c \in Range(df.columns) :
                /\ df'.rows[i][c] # df.rows[i][c] => (pc = "p_write" /\ i = idx /\ c = col)
                /\ c \notin Range(text_columns) => df'.rows[i][c] = Loaded.rows[i][c]]_vars

\* a label was written to the second row of a column while the first row and
\* the other column, no target, still hold their texts
C10_Witness ==
    /\ Len(df.rows) >= 2
    /\ text_columns = <<"A">>
    /\ df.rows[2]["A"] \in Labels
    /\ df.rows[1]["A"] = NaN
    /\ df.rows[1]["B"] = "pay"
    /\ df.rows[2]["B"] = "pay"

\* the cells of column c that are not skipped, top to bottom, as requests
RECURSIVE ColumnCalls(_, _)
ColumnCalls(c, i) ==
    IF i > Len(Loaded.rows) THEN <<>>
    ELSE IF isna(Loaded.rows[i][c]) \/ Loaded.rows[i][c] = ""
         THEN ColumnCalls(c, i + 1)
         ELSE <<[row |-> i, col |-> c, text |-> Loaded.rows[i][c]]>> \o ColumnCalls(c, i + 1)

\* the requests for the target names, in the order of the list
RECURSIVE ExpectedCalls(_)
ExpectedCalls(names) ==
    IF names = <<>> THEN <<>>
    ELSE IF Head(names) \in Range(Loaded.columns)
         THEN ColumnCalls(Head(names), 1) \o ExpectedCalls(Tail(names))
         ELSE ExpectedCalls(Tail(names))

CallsFor(i, c) == {k \in 1..Len(calls) : calls[k].row = i /\ calls[k].col = c}

\* the agent is asked once for each cell that is not skipped, never for
\* another, in the order of the target list and of the rows
CallsAsExpected ==
    ProcReturned =>
        /\ calls = ExpectedCalls(text_columns)
        /\ \A c \in Range(Loaded.columns) : \A i \in 1..Len(Loaded.rows) :
              Cardinality(CallsFor(i, c)) =
                  IF c \in Processed /\ ~(isna(Loaded.rows[i][c]) \/ Loaded.rows[i][c] = "")
                  THEN 1 ELSE 0

\* a request starts only when the label of every earlier one is written
OneInFlight ==
    /\ Len(calls) - Len(writes) \in {0, 1}
    /\ pc = "a_kickoff" => Len(writes) = Len(calls)
    /\ \A k \in 1..Len(writes) : writes[k].row = calls[k].row /\ writes[k].col = calls[k].col

\* C7: the requests made by process_csv_file are the cells that are neither
\* missing nor empty of the existing target columns, column by column in the
\* order of the target list and top to bottom within a column, one request
\* for each such cell and none for any other, and the label of a cell is
\* written before the request for the next cell starts
C7_CallOrder == CallsAsExpected /\ OneInFlight

\* the same for a target list that names no column twice
C7_DistinctTargets ==
    (\A a, b \in 1..Len(text_columns) : text_columns[a] = text_columns[b] => a = b)
        => C7_CallOrder

-----------------------------------------------------------------------------
(* Properties of main (Spec) *)

Count(kind) == Cardinality({k \in 1..Len(console) : console[k].kind = kind})

\* the selection was typed and every entry is a number outside 1..number of columns
NoValidIndex ==
    /\ col_input # <<>>
    /\ \A k \in 1..Len(col_input) :
          /\ IsInt(Strip(col_input[k]))
          /\ int(Strip(col_input[k])) \notin 1..Len(csv_file.header)

\* C6: when every index of the selection lies outside 1..number of columns,
\* main prints that no valid columns were selected and returns: the table is
\* not processed, the agent is not called, the output path is not asked for
\* and no file is written
C6_NoValidColumn ==
    NoValidIndex =>
        /\ pc = "done"
        /\ Count("no_valid_columns") = 1
        /\ console[Len(console)].kind = "no_valid_columns"
        /\ Count("error_occurred") = 0
        /\ text_columns = <<>>
        /\ df = NoDf
        /\ calls = <<>>
        /\ writes = <<>>
        /\ "save_path" \notin Range(prompts)
        /\ out_file = <<>>

\* main returned after a selection of an index below and an index above the range
C6_Witness ==
    /\ pc = "done"
    /\ col_input = << <<"0">>, <<"3">> >>
    /\ console[Len(console)].kind = "no_valid_columns"

\* the exception of crew.kickoff() is travelling up or was reported
Failed == error \in Errors

\* C8: when a call of the agent raises, the call is not repeated and no
\* further cell is classified or written; main's except clause reports the
\* exception once, with its text, and main returns without asking for the
\* output path and without writing a file
C8_AgentFailure ==
    [][/\ Failed => /\ Failed'
                    /\ calls' = calls
                    /\ writes' = writes
                    /\ df' = df
                    /\ pc = "m_except"
                    /\ pc' = "done"
       /\ Failed' => /\ pc' \in {"m_except", "done"}
                     /\ "save_path" \notin Range(prompts')
                     /\ out_file' = <<>>
                     /\ pc' = "done" => /\ Count("error_occurred")' = 1
                                        /\ console'[Len(console')].kind = "error_occurred"
                                        /\ console'[Len(console')].name = error']_vars

\* the agent raised at the second cell: the label of the first is in the
\* table, the error is reported and nothing is written
C8_Witness ==
    /\ pc = "done"
    /\ Failed
    /\ Len(calls) = 2
    /\ Len(writes) = 1
    /\ out_file = <<>>
    /\ console[Len(console)].kind = "error_occurred"

\* C9: a file is written only after process_csv_file has returned the table
\* processed in full and only when the path typed is not empty; with the
\* empty path nothing is written.  The file written holds the table as
\* processed: the header, and the rows in the order of the input
C9_OutputFile ==
    /\ save_path = NotAsked => out_file = <<>>
    /\ save_path = "" => out_file = <<>>
    /\ save_path \notin {NotAsked, ""} =>
          /\ pc = "done"
          /\ error = ""
          /\ ci > Len(text_columns)
          /\ \A c \in Processed : FullyProcessed(c)
          /\ Len(out_file) = 1
          /\ out_file[1].path = save_path
          /\ out_file[1].content.header = csv_file.header
          /\ Len(out_file[1].content.rows) = Len(csv_file.rows)
          /\ \A i \in 1..Len(csv_file.rows) : \A k \in 1..Len(csv_file.header) :
                LET c == csv_file.header[k]
                    v == df.rows[i][c]
                    field == out_file[1].content.rows[i][k]
                IN  /\ field = IF isna(v) THEN "" ELSE v
                    /\ IF c \in Processed /\ csv_file.rows[i][k] \notin NaValues
                       THEN field \in Labels
                       ELSE field = IF csv_file.rows[i][k] \in NaValues
                                    THEN "" ELSE csv_file.rows[i][k]

\* a file was written with a label in the first row and the second row, whose
\* field was NA, left without one
C9_Witness ==
    /\ Len(out_file) = 1
    /\ Len(csv_file.rows) = 2
    /\ csv_file.rows[2][1] = "NA"
    /\ out_file[1].content.rows[1][1] = "Yes"
    /\ out_file[1].content.rows[2][1] = ""
    /\ out_file[1].content.rows[1][2] = "pay"

====
